---- MODULE Spec2Model ----
(***************************************************************************)
(* BM25 task search engine (backend/search_engine.py): the index kept by   *)
(* BM25SearchEngine, build_index, get_bm25_score and search, with the      *)
(* tokenizer they share.                                                   *)
(*                                                                         *)
(* Text is a sequence of Unicode code points; a term is such a sequence.   *)
(* Scores are IEEE-754 binary64 values computed operation by operation as  *)
(* CPython computes them, so that rounding shows in the results.           *)
(***************************************************************************)
EXTENDS Integers, Sequences, FiniteSets

VARIABLES documents, corpus_size, doc_freqs, idf, doc_len, avgdl, indexed,
          op, query, top_n, results, raised, builds, builder, reader

engineVars == <<documents, corpus_size, doc_freqs, idf, doc_len, avgdl, indexed>>
callVars == <<op, query, top_n, results, raised>>
vars == <<documents, corpus_size, doc_freqs, idf, doc_len, avgdl, indexed,
          op, query, top_n, results, raised, builds, builder, reader>>

(***************************************************************************)
(* Bounds of the model.                                                    *)
(***************************************************************************)
MaxDocs == 6        \* longest corpus handed to build_index
MaxTopN == 2        \* largest top_n handed to search
MaxBuilds == 2      \* build_index calls in one behaviour

(***************************************************************************)
(* binary64 arithmetic.  A double is <<s, e, m3, m2, m1, m0>>, the value   *)
(* s * M * 2^e with M = m3*Base^3 + m2*Base^2 + m1*Base + m0 a 56-bit      *)
(* integer whose top bit is 1 and whose low 3 bits are 0 (53 significant   *)
(* bits, 3 guard bits), or all 0 for 0.0.  Every operation rounds to       *)
(* nearest, ties to even.                                                  *)
(***************************************************************************)
Base == 16384
HalfBase == 8192
Pow2(r) == <<1, 2, 4, 8, 16, 32, 64, 128, 256, 512, 1024, 2048, 4096, 8192, 16384>>[r + 1]
FZero == <<0, 0, 0, 0, 0, 0>>
IsZero(x) == x[1] = 0
IsPositive(x) == x[1] = 1
IsNegative(x) == x[1] = -1
FNeg(x) == <<0 - x[1], x[2], x[3], x[4], x[5], x[6]>>

RECURSIVE Sum(_)
Sum(s) == IF s = <<>> THEN 0 ELSE Head(s) + Sum(Tail(s))

\* column sums, least significant first, carried into digits; the last element is the carry out
RECURSIVE Carry(_, _)
Carry(cols, c) ==
    IF cols = <<>> THEN <<c>>
    ELSE <<(Head(cols) + c) % Base>> \o Carry(Tail(cols), (Head(cols) + c) \div Base)

\* the double of 56-bit integer m3..m1,n0 where n0 may have reached Base
Pack(s, e, m3, m2, m1, n0) ==
    IF n0 < Base THEN <<s, e, m3, m2, m1, n0>>
    ELSE IF m1 + 1 < Base THEN <<s, e, m3, m2, m1 + 1, 0>>
    ELSE IF m2 + 1 < Base THEN <<s, e, m3, m2 + 1, 0, 0>>
    ELSE IF m3 + 1 < Base THEN <<s, e, m3 + 1, 0, 0, 0>>
    ELSE <<s, e + 1, HalfBase, 0, 0, 0>>

\* round to nearest, ties to even: the 3 guard bits of m0 and st decide
RoundsUp(m0, st) ==
    m0 % 8 > 4 \/ (m0 % 8 = 4 /\ (st \/ (m0 \div 8) % 2 = 1))

\* a normalized 56-bit integer rounded to 53 bits; st: nonzero bits were lost below it
Round53(s, e, m3, m2, m1, m0, st) ==
    Pack(s, e, m3, m2, m1, (m0 - (m0 % 8)) + (IF RoundsUp(m0, st) THEN 8 ELSE 0))

\* the 112-bit product P (8 digits, least significant first) rounded
MulRound(s, e, P) ==
    IF P[8] >= HalfBase
    THEN Round53(s, e + 56, P[8], P[7], P[6], P[5], P[4] + P[3] + P[2] + P[1] > 0)
    ELSE Round53(s, e + 55, 2 * P[8] + P[7] \div HalfBase,
                 2 * (P[7] % HalfBase) + P[6] \div HalfBase,
                 2 * (P[6] % HalfBase) + P[5] \div HalfBase,
                 2 * (P[5] % HalfBase) + P[4] \div HalfBase,
                 (P[4] % HalfBase) + P[3] + P[2] + P[1] > 0)

\* x * y
FMul(x, y) ==
    IF IsZero(x) \/ IsZero(y) THEN FZero
    ELSE MulRound(x[1] * y[1], x[2] + y[2],
                  Carry(<<x[6] * y[6],
                          x[5] * y[6] + x[6] * y[5],
                          x[4] * y[6] + x[5] * y[5] + x[6] * y[4],
                          x[3] * y[6] + x[4] * y[5] + x[5] * y[4] + x[6] * y[3],
                          x[3] * y[5] + x[4] * y[4] + x[5] * y[3],
                          x[3] * y[4] + x[4] * y[3],
                          x[3] * y[3]>>, 0))

\* u >= v on 4-limb integers
GeqM(u, v) ==
    IF u[1] # v[1] THEN u[1] > v[1]
    ELSE IF u[2] # v[2] THEN u[2] > v[2]
    ELSE IF u[3] # v[3] THEN u[3] > v[3]
    ELSE u[4] >= v[4]

\* the 4 low digits of t, most significant first
Limbs(t) == <<t[4], t[3], t[2], t[1]>>

\* u - v on 4-limb integers, u >= v
SubM(u, v) == Limbs(Carry(<<u[4] - v[4], u[3] - v[3], u[2] - v[2], u[1] - v[1]>>, 0))

\* r * Base - q * y for 4-limb r < y, least significant first, r[1] left out of the top
MulSub(r, y, q) ==
    Carry(<<0 - q * y[4], r[4] - q * y[3], r[3] - q * y[2], r[2] - q * y[1]>>, 0)

\* one digit of long division, tried from q down: <<floor(r * Base / y), the remainder>>
RECURSIVE DivDigit(_, _, _)
RECURSIVE DivDigitTry(_, _, _, _)
DivDigit(r, y, q) == DivDigitTry(r, y, q, MulSub(r, y, q))
DivDigitTry(r, y, q, t) ==
    IF r[1] + t[5] < 0 THEN DivDigit(r, y, q - 1) ELSE <<q, Limbs(t)>>

DivStep(r, y) ==
    DivDigit(r, y, IF (r[1] * Base + r[2]) \div y[1] > Base - 1
                   THEN Base - 1
                   ELSE (r[1] * Base + r[2]) \div y[1])

\* k more digits of r / y behind out, then 1 when a remainder is left, else 0
RECURSIVE DivDigits(_, _, _, _)
RECURSIVE DivDigitsNext(_, _, _, _)
DivDigits(r, y, k, out) ==
    IF k = 0 THEN Append(out, IF r = <<0, 0, 0, 0>> THEN 0 ELSE 1)
    ELSE DivDigitsNext(y, k, out, DivStep(r, y))
DivDigitsNext(y, k, out, d) == DivDigits(d[2], y, k - 1, Append(out, d[1]))

\* floor(X * Base^4 / Y) for normalized X, Y: the leading 0 or 1, 4 digits, the remainder flag
LongDiv(X, Y) ==
    IF GeqM(X, Y) THEN DivDigits(SubM(X, Y), Y, 4, <<1>>) ELSE DivDigits(X, Y, 4, <<0>>)

\* the quotient D of LongDiv rounded
DivRound(s, e, D) ==
    IF D[1] = 1
    THEN Round53(s, e + 1, HalfBase + D[2] \div 2,
                 (D[2] % 2) * HalfBase + D[3] \div 2,
                 (D[3] % 2) * HalfBase + D[4] \div 2,
                 (D[4] % 2) * HalfBase + D[5] \div 2,
                 D[6] = 1 \/ D[5] % 2 = 1)
    ELSE Round53(s, e, D[2], D[3], D[4], D[5], D[6] = 1)

\* x / y, y nonzero
FDiv(x, y) ==
    IF IsZero(x) THEN FZero
    ELSE DivRound(x[1] * y[1], x[2] - y[2] - 56,
                  LongDiv(<<x[3], x[4], x[5], x[6]>>, <<y[3], y[4], y[5], y[6]>>))

\* m moved right by k whole limbs; the 5th element is nonzero when nonzero limbs were lost
ShiftLimbs(m, k) ==
    IF k = 0 THEN <<m[1], m[2], m[3], m[4], 0>>
    ELSE IF k = 1 THEN <<0, m[1], m[2], m[3], m[4]>>
    ELSE IF k = 2 THEN <<0, 0, m[1], m[2], m[3] + m[4]>>
    ELSE <<0, 0, 0, m[1], m[2] + m[3] + m[4]>>

\* w moved right by r < 14 bits, the lost bits or-ed into bit 0
ShiftBits(w, r) ==
    <<w[1] \div Pow2(r),
      (w[1] % Pow2(r)) * Pow2(14 - r) + w[2] \div Pow2(r),
      (w[2] % Pow2(r)) * Pow2(14 - r) + w[3] \div Pow2(r),
      IF w[5] + (w[4] % Pow2(r)) > 0
      THEN (((w[3] % Pow2(r)) * Pow2(14 - r) + w[4] \div Pow2(r)) \div 2) * 2 + 1
      ELSE (w[3] % Pow2(r)) * Pow2(14 - r) + w[4] \div Pow2(r)>>

\* a 4-limb integer shifted right by d bits, the lost bits or-ed into bit 0
ShiftRightSticky(m, d) ==
    IF d >= 56 THEN <<0, 0, 0, 1>> ELSE ShiftBits(ShiftLimbs(m, d \div 14), d % 14)

\* a nonzero 4-limb integer shifted left until its top bit is set, e lowered to match
RECURSIVE NormLeft(_, _, _)
NormLeft(s, e, m) ==
    IF m[1] = 0 THEN NormLeft(s, e - 14, <<m[2], m[3], m[4], 0>>)
    ELSE IF m[1] < HalfBase
    THEN NormLeft(s, e - 1, <<2 * m[1] + m[2] \div HalfBase,
                             2 * (m[2] % HalfBase) + m[3] \div HalfBase,
                             2 * (m[3] % HalfBase) + m[4] \div HalfBase,
                             2 * (m[4] % HalfBase)>>)
    ELSE Round53(s, e, m[1], m[2], m[3], m[4], FALSE)

\* |x| >= |y| for nonzero x, y
GeqAbs(x, y) ==
    IF x[2] # y[2] THEN x[2] > y[2]
    ELSE GeqM(<<x[3], x[4], x[5], x[6]>>, <<y[3], y[4], y[5], y[6]>>)

\* the sum U of two aligned 56-bit integers (5 digits, least significant first) rounded
AddRound(s, e, U) ==
    IF U[5] > 0
    THEN Round53(s, e + 1, HalfBase + U[4] \div 2,
                 (U[4] % 2) * HalfBase + U[3] \div 2,
                 (U[3] % 2) * HalfBase + U[2] \div 2,
                 (U[2] % 2) * HalfBase + U[1] \div 2,
                 U[1] % 2 = 1)
    ELSE Round53(s, e, U[4], U[3], U[2], U[1], FALSE)

\* the difference D of two aligned 56-bit integers normalized and rounded
SubRound(s, e, D) == IF D = <<0, 0, 0, 0>> THEN FZero ELSE NormLeft(s, e, D)

\* X with sign s and exponent e, plus S with sign sy at the same exponent
AddAligned(s, e, X, sy, S) ==
    IF s = sy
    THEN AddRound(s, e, Carry(<<X[4] + S[4], X[3] + S[3], X[2] + S[2], X[1] + S[1]>>, 0))
    ELSE SubRound(s, e, SubM(X, S))

\* x + y for nonzero x, y with |x| >= |y|
FAddOrdered(x, y) ==
    AddAligned(x[1], x[2], <<x[3], x[4], x[5], x[6]>>, y[1],
               ShiftRightSticky(<<y[3], y[4], y[5], y[6]>>, x[2] - y[2]))

\* x + y
FAdd(x, y) ==
    IF IsZero(x) THEN y
    ELSE IF IsZero(y) THEN x
    ELSE IF GeqAbs(x, y) THEN FAddOrdered(x, y) ELSE FAddOrdered(y, x)

RECURSIVE FloatUp(_, _)
FloatUp(n, e) == IF n >= HalfBase THEN <<1, e, n, 0, 0, 0>> ELSE FloatUp(2 * n, e - 1)
\* float(n) for an int 0 <= n < Base
FloatOfInt(n) == IF n = 0 THEN FZero ELSE FloatUp(n, -42)

\* x < y
FLess(x, y) == IsNegative(FAdd(x, FNeg(y)))

\* r2 halved, rounded half to even; st: nonzero bits were lost below r2
RoundHalfEven(r2, st) ==
    IF r2 % 2 = 1 /\ (st \/ (r2 \div 2) % 2 = 1) THEN r2 \div 2 + 1 ELSE r2 \div 2

\* the digits L of (mantissa * 10000) cut k limbs and r bits up, rounded to an integer
RoundAt(L, k, r) ==
    RoundHalfEven(L[k + 1] \div Pow2(r) + L[k + 2] * Pow2(14 - r)
                      + L[k + 3] * Pow2(14 - r) * Base,
                  Sum(SubSeq(L, 1, k)) + (L[k + 1] % Pow2(r)) > 0)

\* round(x, 4) for a double x >= 0, as the number of 1/10000 it holds
PyRound4(x) ==
    IF IsZero(x) \/ (0 - x[2]) - 1 >= 70 THEN 0
    ELSE RoundAt(Carry(<<x[6] * 10000, x[5] * 10000, x[4] * 10000, x[3] * 10000>>, 0)
                     \o <<0, 0, 0>>,
                 ((0 - x[2]) - 1) \div 14, ((0 - x[2]) - 1) % 14)
(***************************************************************************)
(* Text and the tokenizer.                                                 *)
(***************************************************************************)
IsCJK(c) == c >= 19968 /\ c <= 40959                      \* [\u4e00-\u9fff]
IsAlnum(c) == (c >= 97 /\ c <= 122) \/ (c >= 65 /\ c <= 90) \/ (c >= 48 /\ c <= 57)
\* the characters str.strip() removes, up to U+00A0
IsSpace(c) == (c >= 9 /\ c <= 13) \/ (c >= 28 /\ c <= 32) \/ c = 133 \/ c = 160
\* str.lower() on one code point that lowers to one: ASCII and Latin-1 capitals and
\* the Kelvin sign fold, the other code points used here stay
Lower(c) ==
    IF c >= 65 /\ c <= 90 THEN c + 32                         \* A-Z
    ELSE IF c >= 192 /\ c <= 222 /\ c # 215 THEN c + 32       \* Latin-1 capitals
    ELSE IF c = 8490 THEN 107                                 \* KELVIN SIGN to k
    ELSE c
\* U+0130 lowers to two characters, i and U+0307
LowerChars(c) == IF c = 304 THEN <<105, 775>> ELSE <<Lower(c)>>
RECURSIVE LowerStr(_)
LowerStr(text) ==
    IF text = <<>> THEN <<>> ELSE LowerChars(Head(text)) \o LowerStr(Tail(text))

\* the index after the maximal run of CJK (cjk) or alphanumeric characters from i
RECURSIVE RunEnd(_, _, _)
RunEnd(text, i, cjk) ==
    IF i <= Len(text) /\ (IF cjk THEN IsCJK(text[i]) ELSE IsAlnum(text[i]))
    THEN RunEnd(text, i + 1, cjk)
    ELSE i

\* re.findall(r'[\u4e00-\u9fff]+|[a-zA-Z0-9]+', text) from index i
RECURSIVE FindAll(_, _)
FindAll(text, i) ==
    IF i > Len(text) THEN <<>>
    ELSE IF IsCJK(text[i]) \/ IsAlnum(text[i])
    THEN LET j == RunEnd(text, i, IsCJK(text[i]))
         IN  <<SubSeq(text, i, j - 1)>> \o FindAll(text, j)
    ELSE FindAll(text, i + 1)

\* SplitRuns keeping every run whole
RECURSIVE SplitRunsWhole(_)
SplitRunsWhole(tokens) ==
    IF tokens = <<>> THEN <<>> ELSE <<Head(tokens)>> \o SplitRunsWhole(Tail(tokens))

\* the loop of tokenize: a CJK run gives one term per character, another run one term
RECURSIVE SplitRuns(_)
SplitRuns(tokens) ==
    IF tokens = <<>> THEN <<>>
    ELSE LET token == Head(tokens)
         IN  (IF IsCJK(token[1])
              THEN [i \in 1..Len(token) |-> <<token[i]>>]
              ELSE <<token>>) \o SplitRuns(Tail(tokens))

tokenize(text) ==
    IF text = <<>> THEN <<>>
    ELSE SplitRuns(FindAll(LowerStr(text), 1))

\* not query.strip()
IsBlank(text) == \A i \in 1..Len(text) : IsSpace(text[i])

(***************************************************************************)
(* Documents.  A document is a record (a dict); a field may be missing.    *)
(***************************************************************************)
Get(doc, key, default) == IF key \in DOMAIN doc THEN doc[key] ELSE default
\* f"{doc.get('title', '')} {doc.get('description', '')}"
Content(doc) == Get(doc, "title", <<>>) \o <<32>> \o Get(doc, "description", <<>>)

RECURSIVE Count(_, _)
\* Counter(tokens).get(token, 0)
Count(tokens, token) ==
    IF tokens = <<>> THEN 0
    ELSE (IF Head(tokens) = token THEN 1 ELSE 0) + Count(Tail(tokens), token)

Range(s) == {s[i] : i \in 1..Len(s)}

(***************************************************************************)
(* The engine: the fields of BM25SearchEngine as one record.               *)
(***************************************************************************)
k1 == <<1, -55, 12288, 0, 0, 0>>        \* 1.5
b == <<1, -56, 12288, 0, 0, 0>>         \* 0.75

\* the engine after __init__
NewEngine ==
    [documents |-> <<>>, doc_freqs |-> <<>>, idf |-> <<>>, doc_len |-> <<>>,
     avgdl |-> FZero, corpus_size |-> 0, indexed |-> FALSE]

\* math.log((N - freq + 0.5) / (freq + 0.5)) as CPython returns it, row N, column freq
LogTable ==
   <<
      <<<<-1, -55, 8999, 13629, 5536, 6232>>>>,
      <<<<0, 0, 0, 0, 0, 0>>,
        <<-1, -55, 13184, 8443, 15793, 10648>>>>,
      <<<<1, -56, 8369, 6013, 4130, 8848>>,
        <<-1, -56, 8369, 6013, 4130, 8848>>,
        <<-1, -55, 15940, 14679, 1611, 4800>>>>,
      <<<<1, -56, 13882, 2099, 8533, 13520>>,
        <<0, 0, 0, 0, 0, 0>>,
        <<-1, -56, 13882, 2099, 8533, 13520>>,
        <<-1, -54, 8999, 13629, 5536, 6232>>>>,
      <<<<1, -55, 8999, 13629, 5536, 6232>>,
        <<1, -57, 11025, 8556, 8806, 9336>>,
        <<-1, -57, 11025, 8556, 8806, 9336>>,
        <<-1, -55, 8999, 13629, 5536, 6232>>,
        <<-1, -54, 9821, 12763, 12262, 14944>>>>,
      <<<<1, -55, 10643, 11898, 2605, 7272>>,
        <<1, -56, 9630, 4861, 6942, 3616>>,
        <<0, 0, 0, 0, 0, 0>>,
        <<-1, -56, 9630, 4861, 6942, 3608>>,
        <<-1, -55, 10643, 11898, 2605, 7272>>,
        <<-1, -54, 10506, 533, 9777, 8840>>>>,
      <<<<1, -55, 12012, 3821, 14018, 11448>>,
        <<1, -56, 12918, 1399, 1080, 5704>>,
        <<1, -57, 8235, 1166, 5077, 14280>>,
        <<-1, -57, 8235, 1166, 5077, 14264>>,
        <<-1, -56, 12918, 1399, 1080, 5696>>,
        <<-1, -55, 12012, 3821, 14018, 11448>>,
        <<-1, -54, 11092, 2844, 10665, 248>>>>,
      <<<<1, -55, 13184, 8443, 15793, 10648>>,
        <<1, -56, 15655, 1630, 7522, 14056>>,
        <<1, -57, 14810, 10625, 9738, 2048>>,
        <<0, 0, 0, 0, 0, 0>>,
        <<-1, -57, 14810, 10625, 9738, 2056>>,
        <<-1, -56, 15655, 1630, 7522, 14056>>,
        <<-1, -55, 13184, 8443, 15793, 10648>>,
        <<-1, -54, 11604, 13792, 16207, 15312>>>>,
      <<<<1, -55, 14209, 13956, 10495, 8008>>,
        <<1, -55, 8999, 13629, 5536, 6232>>,
        <<1, -56, 10142, 5544, 3119, 9392>>,
        <<1, -58, 13151, 2534, 9320, 8360>>,
        <<-1, -58, 13151, 2534, 9320, 8320>>,
        <<-1, -56, 10142, 5544, 3119, 9392>>,
        <<-1, -55, 8999, 13629, 5536, 6232>>,
        <<-1, -55, 14209, 13956, 10495, 8008>>,
        <<-1, -54, 12060, 6915, 150, 6504>>>>,
      <<<<1, -55, 15121, 200, 11148, 6768>>,
        <<1, -55, 10025, 2758, 238, 3584>>,
        <<1, -56, 12486, 14788, 6669, 7784>>,
        <<1, -57, 12049, 9922, 1161, 4504>>,
        <<0, 0, 0, 0, 0, 0>>,
        <<-1, -57, 12049, 9922, 1161, 4512>>,
        <<-1, -56, 12486, 14788, 6669, 7784>>,
        <<-1, -55, 10025, 2758, 238, 3584>>,
        <<-1, -55, 15121, 200, 11148, 6776>>,
        <<-1, -54, 12470, 5962, 3573, 13704>>>>,
      <<<<1, -55, 15940, 14679, 1611, 4792>>,
        <<1, -55, 10936, 5386, 891, 2344>>,
        <<1, -56, 14537, 9429, 12457, 2496>>,
        <<1, -56, 8369, 6013, 4130, 8848>>,
        <<1, -58, 10948, 925, 9386, 688>>,
        <<-1, -58, 10948, 925, 9386, 680>>,
        <<-1, -56, 8369, 6013, 4130, 8848>>,
        <<-1, -56, 14537, 9429, 12457, 2504>>,
        <<-1, -55, 10936, 5386, 891, 2352>>,
        <<-1, -55, 15940, 14679, 1611, 4800>>,
        <<-1, -54, 12842, 16126, 14902, 8064>>>>,
      <<<<1, -54, 8343, 1120, 3942, 4952>>,
        <<1, -55, 11756, 3480, 7738, 376>>,
        <<1, -56, 16359, 14685, 13763, 32>>,
        <<1, -56, 10420, 654, 9918, 3560>>,
        <<1, -57, 10163, 2567, 3600, 13512>>,
        <<0, 0, 0, 0, 0, 0>>,
        <<-1, -57, 10163, 2567, 3600, 13536>>,
        <<-1, -56, 10420, 654, 9918, 3560>>,
        <<-1, -56, 16359, 14685, 13763, 32>>,
        <<-1, -55, 11756, 3480, 7738, 376>>,
        <<-1, -54, 8343, 1120, 3942, 4952>>,
        <<-1, -54, 13184, 8443, 15793, 10648>>>>,
      <<<<1, -54, 8684, 9821, 4833, 7536>>,
        <<1, -55, 12501, 7425, 14011, 5472>>,
        <<1, -55, 8999, 13629, 5536, 6232>>,
        <<1, -56, 12242, 5910, 11224, 1088>>,
        <<1, -57, 14264, 8233, 15176, 2944>>,
        <<1, -58, 9378, 4208, 14199, 9960>>,
        <<-1, -58, 9378, 4208, 14199, 9976>>,
        <<-1, -57, 14264, 8233, 15176, 2944>>,
        <<-1, -56, 12242, 5910, 11224, 1088>>,
        <<-1, -55, 8999, 13629, 5536, 6232>>,
        <<-1, -55, 12501, 7425, 14011, 5480>>,
        <<-1, -54, 8684, 9821, 4833, 7536>>,
        <<-1, -54, 13499, 12252, 112, 9344>>>>,
      <<<<1, -54, 8999, 13629, 5536, 6232>>,
        <<1, -55, 13184, 8443, 15793, 10648>>,
        <<1, -55, 9745, 1190, 11809, 11336>>,
        <<1, -56, 13882, 2099, 8533, 13520>>,
        <<1, -56, 8954, 9373, 701, 15384>>,
        <<1, -57, 8790, 7771, 2291, 2616>>,
        <<0, 0, 0, 0, 0, 0>>,
        <<-1, -57, 8790, 7771, 2291, 2624>>,
        <<-1, -56, 8954, 9373, 701, 15384>>,
        <<-1, -56, 13882, 2099, 8533, 13520>>,
        <<-1, -55, 9745, 1190, 11809, 11328>>,
        <<-1, -55, 13184, 8443, 15793, 10648>>,
        <<-1, -54, 8999, 13629, 5536, 6232>>,
        <<-1, -54, 13792, 7269, 14783, 12536>>>>
   >>

\* BM25 IDF: log((N - df + 0.5) / (df + 0.5))
\* Idf with a negative value replaced by 0.0
IdfClamped(N, freq) ==
    IF IsNegative(LogTable[N][freq]) THEN FZero ELSE LogTable[N][freq]

Idf(N, freq) == LogTable[N][freq]

\* BuildStart with corpus_size growing by the new corpus instead of being set to it
BuildStartAddingSize(E, docs) ==
    [E EXCEPT !.documents = docs, !.corpus_size = E.corpus_size + Len(docs),
              !.doc_freqs = <<>>, !.doc_len = <<>>]

\* BuildStart without the reset of doc_len
BuildStartKeepingLen(E, docs) ==
    [E EXCEPT !.documents = docs, !.corpus_size = Len(docs), !.doc_freqs = <<>>]

\* build_index, lines 75-78: the new corpus is bound and the counters reset
BuildStart(E, docs) ==
    [E EXCEPT !.documents = docs, !.corpus_size = Len(docs),
              !.doc_freqs = <<>>, !.doc_len = <<>>]

\* CountDoc storing 1 for each token of the document instead of adding 1
CountDocStoringOne(freqs, unique_tokens) ==
    [t \in DOMAIN freqs \cup unique_tokens |->
        IF t \in unique_tokens THEN 1 ELSE freqs[t]]

\* lines 87-90: each distinct token of the document counts once
CountDoc(freqs, unique_tokens) ==
    [t \in DOMAIN freqs \cup unique_tokens |->
        IF t \in unique_tokens
        THEN (IF t \in DOMAIN freqs THEN freqs[t] ELSE 0) + 1
        ELSE freqs[t]]

\* lines 83-90 for the tokens of one document
AddDoc(E, tokens) ==
    [E EXCEPT !.doc_len = Append(E.doc_len, Len(tokens)),
              !.doc_freqs = CountDoc(E.doc_freqs, Range(tokens))]

\* one pass of the loop over the documents, lines 81-90
BuildDoc(E, doc) == AddDoc(E, tokenize(Content(doc)))

RECURSIVE BuildDocs(_, _)
BuildDocs(E, docs) ==
    IF docs = <<>> THEN E ELSE BuildDocs(BuildDoc(E, Head(docs)), Tail(docs))

\* BuildAvgdl keeping an avgdl that an earlier build has set
BuildAvgdlOnce(E) ==
    [E EXCEPT !.avgdl = IF ~IsZero(E.avgdl) THEN E.avgdl
                        ELSE IF E.doc_len # <<>>
                        THEN FDiv(FloatOfInt(Sum(E.doc_len)), FloatOfInt(Len(E.doc_len)))
                        ELSE FZero]

\* line 93
BuildAvgdl(E) ==
    [E EXCEPT !.avgdl = IF E.doc_len # <<>>
                        THEN FDiv(FloatOfInt(Sum(E.doc_len)), FloatOfInt(Len(E.doc_len)))
                        ELSE FZero]

\* lines 96-98: an entry of idf is written for every key of doc_freqs
BuildIdf(E) ==
    [E EXCEPT !.idf = [t \in DOMAIN E.idf \cup DOMAIN E.doc_freqs |->
                          IF t \in DOMAIN E.doc_freqs
                          THEN Idf(E.corpus_size, E.doc_freqs[t])
                          ELSE E.idf[t]]]

\* line 100
BuildFinish(E) == [E EXCEPT !.indexed = TRUE]

build_index(E, docs) ==
    BuildFinish(BuildIdf(BuildAvgdl(BuildDocs(BuildStart(E, docs), docs))))

(***************************************************************************)
(* Scoring and search.  A call returns [value, raised]: raised names the   *)
(* exception that ended it, "None" when it returned normally.              *)
(***************************************************************************)
Returned(v) == [value |-> v, raised |-> "None"]
Raised(exc) == [value |-> <<>>, raised |-> exc]

\* Numerator without its factor tf
NumeratorWithoutTf(tf) == FAdd(k1, FloatOfInt(1))

\* line 137: tf * (self.k1 + 1)
Numerator(tf) == FMul(FloatOfInt(tf), FAdd(k1, FloatOfInt(1)))

\* line 138: tf + self.k1 * (1 - self.b + self.b * (doc_length / self.avgdl))
Denominator(E, tf, doc_length) ==
    FAdd(FloatOfInt(tf),
         FMul(k1, FAdd(FAdd(FloatOfInt(1), FNeg(b)),
                       FMul(b, FDiv(FloatOfInt(doc_length), E.avgdl)))))

\* line 139: what a term with tf occurrences adds to the score
TermScore(E, idf_t, tf, doc_length) ==
    FMul(idf_t, FDiv(Numerator(tf), Denominator(E, tf, doc_length)))

\* the loop of get_bm25_score over the query tokens, lines 124-139
RECURSIVE ScoreLoop(_, _, _, _, _)
RECURSIVE ScoreToken(_, _, _, _, _, _)
ScoreLoop(E, query_tokens, doc_tokens, doc_length, score) ==
    IF query_tokens = <<>> THEN Returned(score)
    ELSE ScoreToken(E, query_tokens, doc_tokens, doc_length, score,
                    Count(doc_tokens, Head(query_tokens)))

\* ScoreToken without the test tf == 0 of line 130
ScoreTokenAnyTf(E, query_tokens, doc_tokens, doc_length, score, tf) ==
    IF Head(query_tokens) \notin DOMAIN E.idf
    THEN ScoreLoop(E, Tail(query_tokens), doc_tokens, doc_length, score)
    ELSE IF IsZero(E.avgdl) THEN Raised("ZeroDivisionError")
    ELSE ScoreLoop(E, Tail(query_tokens), doc_tokens, doc_length,
                   FAdd(score, TermScore(E, E.idf[Head(query_tokens)], tf, doc_length)))

\* lines 125-139 for the first query token, tf its count in the document
ScoreToken(E, query_tokens, doc_tokens, doc_length, score, tf) ==
    IF Head(query_tokens) \notin DOMAIN E.idf \/ tf = 0
    THEN ScoreLoop(E, Tail(query_tokens), doc_tokens, doc_length, score)
    ELSE IF IsZero(E.avgdl) THEN Raised("ZeroDivisionError")
    ELSE ScoreLoop(E, Tail(query_tokens), doc_tokens, doc_length,
                   FAdd(score, TermScore(E, E.idf[Head(query_tokens)], tf, doc_length)))

\* doc_index counts from 1 here, from 0 in the source
get_bm25_score(E, query_tokens, doc_index) ==
    IF ~E.indexed THEN Returned(FZero)
    ELSE IF doc_index > Len(E.documents) \/ doc_index > Len(E.doc_len)
    THEN Raised("IndexError")
    ELSE ScoreLoop(E, query_tokens, tokenize(Content(E.documents[doc_index])),
                   E.doc_len[doc_index], FZero)

\* the entry search appends for a document with a positive score, lines 168-174
ResultOf(doc, score) ==
    [task_id |-> Get(doc, "task_id", ""), title |-> Get(doc, "title", <<>>),
     score |-> PyRound4(score),
     lat |-> Get(doc, "location_lat", 0), lng |-> Get(doc, "location_lng", 0)]

\* Scored keeping every score that is not negative
ScoredNotNegative(scores, doc, r) ==
    IF ~IsNegative(r) THEN Append(scores, ResultOf(doc, r)) ELSE scores

\* lines 167-174: the entry of document doc is appended when its score r is positive
Scored(scores, doc, r) ==
    IF IsPositive(r) THEN Append(scores, ResultOf(doc, r)) ELSE scores

\* the scoring loop of search from document i on, lines 164-174
RECURSIVE ScoreDocs(_, _, _, _, _)
RECURSIVE ScoreDoc(_, _, _, _, _, _)
ScoreDocs(E, docs, query_tokens, i, scores) ==
    IF i > Len(docs) THEN Returned(scores)
    ELSE ScoreDoc(E, docs, query_tokens, i, scores, get_bm25_score(E, query_tokens, i))

\* one pass of the loop, r what get_bm25_score gave for document i
ScoreDoc(E, docs, query_tokens, i, scores, r) ==
    IF r.raised # "None" THEN Raised(r.raised)
    ELSE ScoreDocs(E, docs, query_tokens, i + 1, Scored(scores, docs[i], r.value))

\* InsertDesc putting x before the entries of equal score
RECURSIVE InsertDescBeforeEqual(_, _)
InsertDescBeforeEqual(sorted, x) ==
    IF sorted = <<>> THEN <<x>>
    ELSE IF Head(sorted).score > x.score
    THEN <<Head(sorted)>> \o InsertDescBeforeEqual(Tail(sorted), x)
    ELSE <<x>> \o sorted

\* x put into a list sorted by score descending, behind the entries that are not smaller
RECURSIVE InsertDesc(_, _)
InsertDesc(sorted, x) ==
    IF sorted = <<>> THEN <<x>>
    ELSE IF Head(sorted).score >= x.score
    THEN <<Head(sorted)>> \o InsertDesc(Tail(sorted), x)
    ELSE <<x>> \o sorted

\* scores.sort(key=lambda x: x['score'], reverse=True): a stable sort
RECURSIVE SortDesc(_, _)
SortDesc(scores, sorted) ==
    IF scores = <<>> THEN sorted
    ELSE SortDesc(Tail(scores), InsertDesc(sorted, Head(scores)))

\* Slice keeping one entry more
SliceOneMore(scores, n) ==
    SubSeq(scores, 1, IF n + 1 < Len(scores) THEN n + 1 ELSE Len(scores))

\* scores[:n]
Slice(scores, n) ==
    IF n >= 0 THEN SubSeq(scores, 1, IF n < Len(scores) THEN n ELSE Len(scores))
    ELSE SubSeq(scores, 1, IF Len(scores) + n > 0 THEN Len(scores) + n ELSE 0)

\* lines 176-183: r is what the scoring loop gave
Ranked(r, n) ==
    IF r.raised # "None" THEN r ELSE Returned(Slice(SortDesc(r.value, <<>>), n))

\* lines 158-183, query_tokens the tokens of the query
SearchTokens(E, query_tokens, n) ==
    IF query_tokens = <<>> THEN Returned(<<>>)
    ELSE Ranked(ScoreDocs(E, E.documents, query_tokens, 1, <<>>), n)

search(E, q, n) ==
    IF ~E.indexed \/ IsBlank(q) THEN Returned(<<>>) ELSE SearchTokens(E, tokenize(q), n)
(***************************************************************************)
(* Inputs.  The corpora handed to build_index are the task catalogue cut   *)
(* down from either end; the catalogue starts with the two tasks of the    *)
(* library/canteen scenario.                                               *)
(***************************************************************************)
Catalogue ==
   << [task_id |-> "T001",
       title |-> <<22270, 20070, 39302, 25171, 21345>>,
       description |-> <<22312, 22270, 20070, 39302, 23436, 25104, 23398, 20064, 20219, 21153>>,
       location_lat |-> 22, location_lng |-> 114],
      [task_id |-> "T002",
       title |-> <<39135, 22530, 29992, 39184>>,
       description |-> <<20307, 39564, 26657, 22253, 32654, 39135>>,
       location_lat |-> 23, location_lng |-> 115],
      [task_id |-> "T003", title |-> <<99, 32, 50>>, description |-> <<>>],       \* "c 2"
      [task_id |-> "T004", title |-> <<98>>],                                     \* "b"
      [task_id |-> "T005", title |-> <<>>, description |-> <<98>>],               \* "", "b"
      [task_id |-> "T006", title |-> <<97, 32, 99>>, description |-> <<98, 32, 99>>,
       location_lat |-> 24],                                                      \* "a c", "b c"
      [task_id |-> "T007", title |-> <<66, 32, 97>>, description |-> <<>>],       \* "B a"
      [task_id |-> "T008", title |-> <<63, 33>>, description |-> <<>>] >>         \* "?!"

Min(x, y) == IF x < y THEN x ELSE y

Corpora ==
    {SubSeq(Catalogue, 1, n) : n \in 0..Min(MaxDocs, Len(Catalogue))}
    \cup {SubSeq(Catalogue, Len(Catalogue) - n + 1, Len(Catalogue)) :
              n \in 0..Min(MaxDocs, Len(Catalogue))}

Queries ==
    { <<22270, 20070, 39302>>,      \* the library query of the scenario
      <<32654, 39135>>,             \* the food query of the scenario
      <<65, 32, 98>>,               \* "A b"
      <<99>>,                       \* "c"
      <<>>,                         \* ""
      <<32, 63>>,                   \* " ?"
      <<122, 122>> }                \* "zz"

\* the scenario asks for 5 results
TopNs == (0..MaxTopN) \cup {5}

Idle == [pc |-> "idle"]

\* the engine as the record the operators above take
Self ==
    [documents |-> documents, doc_freqs |-> doc_freqs, idf |-> idf, doc_len |-> doc_len,
     avgdl |-> avgdl, corpus_size |-> corpus_size, indexed |-> indexed]

\* the fields are those of the record E
EngineIs(E) ==
    /\ documents' = E.documents
    /\ corpus_size' = E.corpus_size
    /\ doc_freqs' = E.doc_freqs
    /\ idf' = E.idf
    /\ doc_len' = E.doc_len
    /\ avgdl' = E.avgdl
    /\ indexed' = E.indexed

Init ==
    /\ documents = NewEngine.documents
    /\ corpus_size = NewEngine.corpus_size
    /\ doc_freqs = NewEngine.doc_freqs
    /\ idf = NewEngine.idf
    /\ doc_len = NewEngine.doc_len
    /\ avgdl = NewEngine.avgdl
    /\ indexed = NewEngine.indexed
    /\ op = "none"
    /\ query = <<>>
    /\ top_n = 0
    /\ results = <<>>
    /\ raised = "None"
    /\ builds = 0
    /\ builder = Idle
    /\ reader = Idle

\* build_index(docs), the whole call; it returns nothing
BuildIndex ==
    /\ builds < MaxBuilds
    /\ \E docs \in Corpora : EngineIs(build_index(Self, docs))
    /\ builds' = builds + 1
    /\ op' = "build_index"
    /\ query' = <<>>
    /\ top_n' = 0
    /\ results' = <<>>
    /\ raised' = "None"
    /\ UNCHANGED <<builder, reader>>

\* the call search(q, n) ends with r
SearchEnds(q, n, r) ==
    /\ op' = "search"
    /\ query' = q
    /\ top_n' = n
    /\ results' = r.value
    /\ raised' = r.raised

\* Search looking its query tokens up in doc_freqs, a defaultdict: a lookup
\* of a missing key stores it with 0
SearchCountingTokens ==
    /\ op # "search"
    /\ \E q \in Queries, n \in TopNs :
          /\ SearchEnds(q, n, search(Self, q, n))
          /\ doc_freqs' = [t \in DOMAIN doc_freqs \cup Range(tokenize(q)) |->
                              IF t \in DOMAIN doc_freqs THEN doc_freqs[t] ELSE 0]
    /\ UNCHANGED <<documents, corpus_size, idf, doc_len, avgdl, indexed,
                   builds, builder, reader>>

\* search(q, n), the whole call; results and raised are what it gave.  A search
\* leaves the engine as it was, so a search that follows a search reaches no
\* state that the first search after a build does not reach: one is recorded.
Search ==
    /\ op # "search"
    /\ \E q \in Queries, n \in TopNs : SearchEnds(q, n, search(Self, q, n))
    /\ UNCHANGED <<engineVars, builds, builder, reader>>

Next == BuildIndex \/ Search

Spec == Init /\ [][Next]_vars

(***************************************************************************)
(* A search running while build_index runs.  Both calls are on the one     *)
(* engine and nothing orders them, so a thread switch may fall between any *)
(* two statements.  Each step below is one store of build_index into a     *)
(* field of the engine, or one read of a field by search and               *)
(* get_bm25_score, with the thread's own computation that follows it.      *)
(*                                                                         *)
(* builder: pc is the line build_index stands before, i the document the   *)
(* loop of line 81 takes next, unique_tokens what the loop of line 89 has  *)
(* not counted yet, keys the keys of the new doc_freqs in the order of     *)
(* their insertion (the order in which line 96 goes through them), k the   *)
(* place of line 96 in keys, old the engine of before the call.            *)
(*                                                                         *)
(* reader: pc is the line search stands before, docs the list that line    *)
(* 165 bound, i the document of the pass, scores the entries appended;     *)
(* doc_tokens, doc_length, t, idf_t and score are the locals of the call   *)
(* of get_bm25_score: t is the place of the loop of line 124 in tokens.    *)
(***************************************************************************)
MaxConcDocs == 3    \* longest corpus in the concurrent runs

\* the tasks whose texts have few terms, T003..T008
ConcCatalogue == SubSeq(Catalogue, 3, Len(Catalogue))

ConcCorpora ==
    {SubSeq(ConcCatalogue, 1, n) : n \in 0..Min(MaxConcDocs, Len(ConcCatalogue))}
    \cup {SubSeq(ConcCatalogue, Len(ConcCatalogue) - n + 1, Len(ConcCatalogue)) :
              n \in 0..Min(MaxConcDocs, Len(ConcCatalogue))}

\* build_index before its first statement
BuilderStart(E, c1) ==
    [pc |-> "75", docs |-> c1, i |-> 1, unique_tokens |-> {}, keys |-> <<>>, k |-> 1,
     old |-> E]

\* search before its first statement
ReaderStart(q, n) ==
    [pc |-> "154", q |-> q, n |-> n, docs |-> <<>>, tokens |-> <<>>, i |-> 1,
     scores |-> <<>>, doc_tokens |-> <<>>, doc_length |-> 0, t |-> 1,
     idf_t |-> FZero, score |-> FZero]

\* a build of corpus c1 and a search for q start on the engine E
ConcStart(E, c1, q) ==
    /\ documents = E.documents
    /\ corpus_size = E.corpus_size
    /\ doc_freqs = E.doc_freqs
    /\ idf = E.idf
    /\ doc_len = E.doc_len
    /\ avgdl = E.avgdl
    /\ indexed = E.indexed
    /\ op = "build_index"
    /\ query = <<>>
    /\ top_n = 0
    /\ results = <<>>
    /\ raised = "None"
    /\ builds = 1
    /\ builder = BuilderStart(E, c1)
    /\ reader = ReaderStart(q, MaxTopN)

\* the engine the two calls start on: a new one, or one that has indexed a corpus
OldEngines == {NewEngine} \cup {build_index(NewEngine, c0) : c0 \in ConcCorpora}

InitConc ==
    \E E \in OldEngines, c1 \in ConcCorpora, q \in Queries : ConcStart(E, c1, q)

\* line 75
BDocuments ==
    /\ builder.pc = "75"
    /\ documents' = builder.docs
    /\ builder' = [builder EXCEPT !.pc = "76"]
    /\ UNCHANGED <<corpus_size, doc_freqs, idf, doc_len, avgdl, indexed,
                   callVars, builds, reader>>

\* line 76
BCorpusSize ==
    /\ builder.pc = "76"
    /\ corpus_size' = Len(builder.docs)
    /\ builder' = [builder EXCEPT !.pc = "77"]
    /\ UNCHANGED <<documents, doc_freqs, idf, doc_len, avgdl, indexed,
                   callVars, builds, reader>>

\* line 77
BDocFreqs ==
    /\ builder.pc = "77"
    /\ doc_freqs' = <<>>
    /\ builder' = [builder EXCEPT !.pc = "78", !.keys = <<>>]
    /\ UNCHANGED <<documents, corpus_size, idf, doc_len, avgdl, indexed,
                   callVars, builds, reader>>

\* lines 81 and 92: the loop over the documents goes on with document i or is over
DocLoopPc(docs, i) == IF i <= Len(docs) THEN "83" ELSE "93"

\* line 78
BDocLen ==
    /\ builder.pc = "78"
    /\ doc_len' = <<>>
    /\ builder' = [builder EXCEPT !.pc = DocLoopPc(builder.docs, 1)]
    /\ UNCHANGED <<documents, corpus_size, doc_freqs, idf, avgdl, indexed,
                   callVars, builds, reader>>

\* lines 83-88 for the tokens of document builder.i: its length is appended,
\* its distinct tokens are what line 89 will go through
BAppended(tokens) ==
    /\ doc_len' = Append(doc_len, Len(tokens))
    /\ builder' = [builder EXCEPT
                      !.i = builder.i + 1,
                      !.unique_tokens = Range(tokens),
                      !.pc = IF tokens = <<>>
                             THEN DocLoopPc(builder.docs, builder.i + 1) ELSE "90"]

\* lines 83-88
BAppend ==
    /\ builder.pc = "83"
    /\ BAppended(tokenize(Content(builder.docs[builder.i])))
    /\ UNCHANGED <<documents, corpus_size, doc_freqs, idf, avgdl, indexed,
                   callVars, builds, reader>>

\* the keys of a dict after a store under token: a new key comes last
KeysWith(keys, token) == IF token \in Range(keys) THEN keys ELSE Append(keys, token)

\* line 90 for the token the set gives next; a set of strings gives its
\* elements in the order of their hashes, which differs from one run of the
\* interpreter to the next
BCount ==
    /\ builder.pc = "90"
    /\ \E token \in builder.unique_tokens :
          /\ doc_freqs' = CountDoc(doc_freqs, {token})
          /\ builder' = [builder EXCEPT
                            !.unique_tokens = builder.unique_tokens \ {token},
                            !.keys = KeysWith(builder.keys, token),
                            !.pc = IF builder.unique_tokens = {token}
                                   THEN DocLoopPc(builder.docs, builder.i) ELSE "90"]
    /\ UNCHANGED <<documents, corpus_size, idf, doc_len, avgdl, indexed,
                   callVars, builds, reader>>

\* lines 96 and 100: the loop over doc_freqs goes on with key k or is over
IdfLoopPc(keys, k) == IF k <= Len(keys) THEN "98" ELSE "100"

\* line 93
BAvgdl ==
    /\ builder.pc = "93"
    /\ avgdl' = BuildAvgdl(Self).avgdl
    /\ builder' = [builder EXCEPT !.k = 1, !.pc = IdfLoopPc(builder.keys, 1)]
    /\ UNCHANGED <<documents, corpus_size, doc_freqs, idf, doc_len, indexed,
                   callVars, builds, reader>>

\* line 98 for one key of doc_freqs
StoreIdf(E, token) ==
    [t \in DOMAIN E.idf \cup {token} |->
        IF t = token THEN Idf(E.corpus_size, E.doc_freqs[token]) ELSE E.idf[t]]

\* one pass of the loop of lines 96-98
BIdf ==
    /\ builder.pc = "98"
    /\ idf' = StoreIdf(Self, builder.keys[builder.k])
    /\ builder' = [builder EXCEPT !.k = builder.k + 1,
                                  !.pc = IdfLoopPc(builder.keys, builder.k + 1)]
    /\ UNCHANGED <<documents, corpus_size, doc_freqs, doc_len, avgdl, indexed,
                   callVars, builds, reader>>

\* line 100
BFinish ==
    /\ builder.pc = "100"
    /\ indexed' = TRUE
    /\ builder' = [builder EXCEPT !.pc = "done"]
    /\ UNCHANGED <<documents, corpus_size, doc_freqs, idf, doc_len, avgdl,
                   callVars, builds, reader>>

\* the call of search returns v or raises exc
ReaderReturns(v, exc) ==
    /\ op' = "search"
    /\ query' = reader.q
    /\ top_n' = reader.n
    /\ results' = v
    /\ raised' = exc
    /\ reader' = [ReaderStart(reader.q, reader.n) EXCEPT !.pc = "done"]

\* lines 154-159: indexed is read; the early returns
RStart ==
    /\ reader.pc = "154"
    /\ IF ~indexed \/ IsBlank(reader.q) \/ tokenize(reader.q) = <<>>
       THEN ReaderReturns(<<>>, "None")
       ELSE /\ reader' = [reader EXCEPT !.pc = "165", !.tokens = tokenize(reader.q)]
            /\ UNCHANGED callVars
    /\ UNCHANGED <<engineVars, builds, builder>>

\* line 165: the loop is over the list that self.documents is bound to now
RBind ==
    /\ reader.pc = "165"
    /\ reader' = [reader EXCEPT !.pc = "114", !.docs = documents, !.i = 1]
    /\ UNCHANGED <<callVars, engineVars, builds, builder>>

\* lines 141 and 167-174: get_bm25_score returned score for document reader.i;
\* the loop of line 165 goes on
RScored(score) ==
    [reader EXCEPT !.pc = "114",
                   !.i = reader.i + 1,
                   !.scores = Scored(reader.scores, reader.docs[reader.i], score),
                   !.doc_tokens = <<>>, !.doc_length = 0, !.t = 1,
                   !.idf_t = FZero, !.score = FZero]

\* lines 166 and 114: get_bm25_score is called and reads indexed
RIndexed ==
    /\ reader.pc = "114"
    /\ reader.i <= Len(reader.docs)
    /\ reader' = IF ~indexed THEN RScored(FZero) ELSE [reader EXCEPT !.pc = "117"]
    /\ UNCHANGED <<callVars, engineVars, builds, builder>>

\* lines 117-120: self.documents[doc_index] is read and tokenized
RDoc ==
    /\ reader.pc = "117"
    /\ IF reader.i > Len(documents)
       THEN ReaderReturns(<<>>, "IndexError")
       ELSE /\ reader' = [reader EXCEPT
                             !.pc = "121",
                             !.doc_tokens = tokenize(Content(documents[reader.i]))]
            /\ UNCHANGED callVars
    /\ UNCHANGED <<engineVars, builds, builder>>

\* lines 121-123: self.doc_len[doc_index] is read
RLen ==
    /\ reader.pc = "121"
    /\ IF reader.i > Len(doc_len)
       THEN ReaderReturns(<<>>, "IndexError")
       ELSE /\ reader' = [reader EXCEPT !.pc = "125", !.doc_length = doc_len[reader.i],
                                        !.t = 1, !.score = FZero]
            /\ UNCHANGED callVars
    /\ UNCHANGED <<engineVars, builds, builder>>

\* line 124: the loop over the query tokens goes on with score, or
\* get_bm25_score returns it
RTokenDone(score) ==
    IF reader.t < Len(reader.tokens)
    THEN [reader EXCEPT !.pc = "125", !.t = reader.t + 1, !.score = score,
                        !.idf_t = FZero]
    ELSE RScored(score)

\* lines 125-131: the token is looked up in self.idf, then counted in the document
RToken ==
    /\ reader.pc = "125"
    /\ reader' = IF \/ reader.tokens[reader.t] \notin DOMAIN idf
                    \/ Count(reader.doc_tokens, reader.tokens[reader.t]) = 0
                 THEN RTokenDone(reader.score)
                 ELSE [reader EXCEPT !.pc = "134"]
    /\ UNCHANGED <<callVars, engineVars, builds, builder>>

\* line 134: self.idf[token] is read
RIdf ==
    /\ reader.pc = "134"
    /\ reader' = [reader EXCEPT !.pc = "138", !.idf_t = idf[reader.tokens[reader.t]]]
    /\ UNCHANGED <<callVars, engineVars, builds, builder>>

\* lines 137-139: self.avgdl is read and divided by
RTerm ==
    /\ reader.pc = "138"
    /\ IF IsZero(avgdl)
       THEN ReaderReturns(<<>>, "ZeroDivisionError")
       ELSE /\ reader' = RTokenDone(
                   FAdd(reader.score,
                        TermScore(Self, reader.idf_t,
                                  Count(reader.doc_tokens, reader.tokens[reader.t]),
                                  reader.doc_length)))
            /\ UNCHANGED callVars
    /\ UNCHANGED <<engineVars, builds, builder>>

\* lines 176-183, when the loop of line 165 is over
RReturn ==
    /\ reader.pc = "114"
    /\ reader.i > Len(reader.docs)
    /\ ReaderReturns(Slice(SortDesc(reader.scores, <<>>), reader.n), "None")
    /\ UNCHANGED <<engineVars, builds, builder>>

NextConc ==
    \/ BDocuments \/ BCorpusSize \/ BDocFreqs \/ BDocLen \/ BAppend \/ BCount
    \/ BAvgdl \/ BIdf \/ BFinish
    \/ RStart \/ RBind \/ RIndexed \/ RDoc \/ RLen \/ RToken \/ RIdf \/ RTerm \/ RReturn

SpecConc == InitConc /\ [][NextConc]_vars

(***************************************************************************)
(* tokenize on its own: a text grows by one character at a time and is     *)
(* tokenized; query holds the text and results its tokens.                 *)
(***************************************************************************)
MaxLen == 3         \* longest text handed to tokenize

\* A, b, 7, space, ?, two ideographs of U+4E00..U+9FFF, one of Extension A,
\* the Kelvin sign, capital I with dot above, capital E with acute
Alphabet == {65, 98, 55, 32, 63, 22270, 39302, 13312, 8490, 304, 201}

InitTok ==
    /\ documents = <<>>
    /\ corpus_size = 0
    /\ doc_freqs = <<>>
    /\ idf = <<>>
    /\ doc_len = <<>>
    /\ avgdl = FZero
    /\ indexed = FALSE
    /\ op = "tokenize"
    /\ query = <<>>
    /\ top_n = 0
    /\ results = tokenize(<<>>)
    /\ raised = "None"
    /\ builds = 0
    /\ builder = Idle
    /\ reader = Idle

\* tokenize(text) for a text one character longer
Tokenize ==
    /\ Len(query) < MaxLen
    /\ \E c \in Alphabet :
          /\ query' = Append(query, c)
          /\ results' = tokenize(Append(query, c))
    /\ UNCHANGED <<engineVars, op, top_n, raised, builds, builder, reader>>

NextTok == Tokenize

SpecTok == InitTok /\ [][NextTok]_vars

(***************************************************************************)
(* Properties.                                                             *)
(***************************************************************************)
\* the place of the document with this task_id in the indexed corpus
PosOf(task_id) == CHOOSE i \in 1..Len(documents) : documents[i].task_id = task_id

\* what the recorded call gave
Got == [value |-> results, raised |-> raised]

\* the index the concurrent build is making, once complete
NewIndex == build_index(builder.old, builder.docs)

\* C1: a search that runs while build_index runs ends as it would have on
\* the index of before the build or on the index of after it: it does not
\* raise and its results are those of one of the two.
C1_AtomicRebuild ==
    reader.pc = "done" =>
        \/ Got = search(builder.old, reader.q, reader.n)
        \/ Got = search(NewIndex, reader.q, reader.n)

ScenarioCorpus == SubSeq(Catalogue, 1, 2)
LibraryQuery == <<22270, 20070, 39302>>
FoodQuery == <<32654, 39135>>

\* C2: on the corpus [T001, T002] the search for the library query with
\* top_n = 5 returns exactly T001 with a positive score, and the search for
\* the food query returns exactly T002.
C2_ScenarioResults ==
    (op = "search" /\ documents = ScenarioCorpus /\ top_n = 5) =>
        /\ query = LibraryQuery =>
              Len(results) = 1 /\ results[1].task_id = "T001" /\ results[1].score > 0
        /\ query = FoodQuery =>
              Len(results) = 1 /\ results[1].task_id = "T002"

\* C3: a search with top_n >= 0 returns at most top_n results, so none
\* when top_n = 0.
C3_AtMostTopN ==
    (op = "search" /\ top_n >= 0) => Len(results) <= top_n

\* a search with top_n = 0 came back empty although a document scores positive
C3_Witness ==
    /\ op = "search"
    /\ top_n = 0
    /\ results = <<>>
    /\ \E i \in 1..Len(documents) :
          IsPositive(get_bm25_score(Self, tokenize(query), i).value)

\* C4: every score in a result of search, the value rounded to 4 digits,
\* is strictly positive.
C4_PositiveScores ==
    op = "search" => \A i \in 1..Len(results) : results[i].score > 0

\* C5: after completed builds a search never raises; when corpus_size is 0
\* then avgdl is 0 and the search returns nothing, and when avgdl is 0 the
\* division by avgdl is not reached (no ZeroDivisionError).
C5_NoDivisionByZero ==
    /\ raised = "None"
    /\ corpus_size = 0 => IsZero(avgdl)
    /\ (op = "search" /\ corpus_size = 0) => results = <<>>

\* a search ran on a corpus whose documents all have no token, with a query
\* token that idf still knows
C5_Witness ==
    /\ op = "search"
    /\ raised = "None"
    /\ corpus_size > 0
    /\ IsZero(avgdl)
    /\ \E t \in Range(tokenize(query)) : t \in DOMAIN idf

\* C6: on a corpus that is not empty, a query with no token and a query
\* none of whose tokens is in the indexed vocabulary return nothing.
C6_NoMatchEmpty ==
    (/\ op = "search"
     /\ corpus_size > 0
     /\ \A t \in Range(tokenize(query)) : t \notin DOMAIN doc_freqs) => results = <<>>

\* a search on a corpus with tokens, for a query whose tokens are not in
\* the vocabulary
C6_Witness ==
    /\ op = "search"
    /\ corpus_size > 0
    /\ ~IsZero(avgdl)
    /\ tokenize(query) # <<>>
    /\ \A t \in Range(tokenize(query)) : t \notin DOMAIN doc_freqs
    /\ results = <<>>

\* the idf values of the indexed terms
IndexedIdfs == {idf[t] : t \in DOMAIN doc_freqs}

\* C7 as stated: for every indexed term and every document length of the
\* index, one more occurrence of the term never lowers what the term adds
\* to the score.
C7_TfMonotone ==
    (op = "build_index" /\ ~IsZero(avgdl)) =>
        \A w \in IndexedIdfs, dl \in Range(doc_len) :
            \A tf \in 1..(dl - 1) :
                ~FLess(TermScore(Self, w, tf + 1, dl), TermScore(Self, w, tf, dl))

\* C7 amended: the same, for the indexed terms whose idf is not negative.
C7_TfMonotoneNonNegativeIdf ==
    (op = "build_index" /\ ~IsZero(avgdl)) =>
        \A w \in IndexedIdfs, dl \in Range(doc_len) :
            ~IsNegative(w) =>
                \A tf \in 1..(dl - 1) :
                    ~FLess(TermScore(Self, w, tf + 1, dl), TermScore(Self, w, tf, dl))

\* an index with a term of positive idf and a document long enough for a
\* second occurrence, which adds to the term's part of the score
C7_Witness ==
    /\ op = "build_index"
    /\ ~IsZero(avgdl)
    /\ \E w \in IndexedIdfs, dl \in Range(doc_len) :
          /\ IsPositive(w)
          /\ dl >= 2
          /\ FLess(TermScore(Self, w, 1, dl), TermScore(Self, w, 2, dl))

\* C8: build_index called again with the corpus the engine already indexes
\* leaves the result of every search as it was.
C8_RebuildIdempotent ==
    [][(op' = "build_index" /\ indexed /\ documents' = documents) =>
          \A q \in Queries, n \in TopNs : search(Self', q, n) = search(Self, q, n)]_vars

\* the engine was built twice with one corpus, and a search finds something
C8_Witness ==
    /\ op = "build_index"
    /\ builds = 2
    /\ documents # <<>>
    /\ Self = build_index(build_index(NewEngine, documents), documents)
    /\ \E q \in Queries, n \in TopNs : search(Self, q, n).value # <<>>

\* C9: two results of equal score stand in the order of their documents in
\* the corpus.
C9_StableTies ==
    op = "search" =>
        \A i, j \in 1..Len(results) :
            (i < j /\ results[i].score = results[j].score) =>
                PosOf(results[i].task_id) < PosOf(results[j].task_id)

\* a search returned two results of equal score
C9_Witness ==
    /\ op = "search"
    /\ \E i, j \in 1..Len(results) : i < j /\ results[i].score = results[j].score

\* C10: the keys of idf are the keys of doc_freqs.
C10_IdfKeys == DOMAIN idf = DOMAIN doc_freqs

\* C11: initially and after every completed build_index, doc_len has one
\* entry for each document and corpus_size is their number.
C11_LengthsAgree ==
    Len(doc_len) = Len(documents) /\ Len(documents) = corpus_size

\* a second build has put a corpus in the place of one with other terms
C11_Witness ==
    /\ op = "build_index"
    /\ builds = 2
    /\ corpus_size > 0
    /\ Len(doc_len) = corpus_size
    /\ DOMAIN idf # DOMAIN doc_freqs

\* C12: a search (with the get_bm25_score and tokenize calls it makes)
\* leaves documents, doc_freqs, idf, doc_len, avgdl, corpus_size and
\* indexed as they were; a step that changes one of them is a build_index.
C12_SearchReadOnly ==
    [][/\ op' = "search" => engineVars' = engineVars
       /\ engineVars' # engineVars => op' = "build_index"]_vars

\* a search on a built index scored documents and returned some
C12_Witness ==
    /\ op = "search"
    /\ indexed
    /\ results # <<>>
    /\ raised = "None"

\* the unrounded score of document i for the recorded query
RawScore(i) == get_bm25_score(Self, tokenize(query), i).value

\* the documents the recorded search returned, as places in the corpus
ReturnedDocs == {PosOf(results[i].task_id) : i \in 1..Len(results)}

\* the documents whose unrounded score is positive
PositiveDocs == {i \in 1..Len(documents) : IsPositive(RawScore(i))}

\* C13: search returns the first top_n of the documents of positive score
\* in descending order of their unrounded score: no result stands behind
\* one of strictly lower score, and no document left out scores strictly
\* higher than one returned.
C13_RankedByScore ==
    (op = "search" /\ indexed) =>
        /\ ReturnedDocs \subseteq PositiveDocs
        /\ Len(results) = Min(top_n, Cardinality(PositiveDocs))
        /\ \A i, j \in 1..Len(results) :
              i < j => ~FLess(RawScore(PosOf(results[i].task_id)),
                              RawScore(PosOf(results[j].task_id)))
        /\ \A k \in PositiveDocs \ ReturnedDocs, i \in ReturnedDocs :
              ~FLess(RawScore(i), RawScore(k))

\* the indexed terms found in more than half of the documents
FrequentTerms == {t \in DOMAIN doc_freqs : 2 * doc_freqs[t] > corpus_size}

\* the tokens of document i
DocTokens(i) == tokenize(Content(documents[i]))

\* C14: the idf that build_index stores for a term found in more than half
\* of the documents is negative; every match of such a term adds a strictly
\* negative amount to the score, and search returns no document whose only
\* matching query terms are such terms.
C14_NegativeIdf ==
    /\ \A t \in FrequentTerms : IsNegative(idf[t])
    /\ (op = "build_index" /\ ~IsZero(avgdl)) =>
          \A w \in {idf[t] : t \in FrequentTerms}, dl \in Range(doc_len) :
              \A tf \in 1..dl : IsNegative(TermScore(Self, w, tf, dl))
    /\ op = "search" =>
          \A i \in ReturnedDocs :
              \E t \in Range(tokenize(query)) \ FrequentTerms :
                  Count(DocTokens(i), t) > 0

\* a search whose query has a frequent term left out a document that
\* matches that term and no other
C14_Witness ==
    /\ op = "search"
    /\ top_n > 0
    /\ \E i \in 1..Len(documents) :
          /\ i \notin ReturnedDocs
          /\ \E t \in Range(tokenize(query)) : Count(DocTokens(i), t) > 0
          /\ \A t \in Range(tokenize(query)) :
                Count(DocTokens(i), t) > 0 => t \in FrequentTerms
          /\ IsNegative(RawScore(i))

\* the documents that hold term t at least once
DocsWith(t) == {i \in 1..Len(documents) : Count(DocTokens(i), t) > 0}

\* the terms of the corpus
CorpusTerms == UNION {Range(DocTokens(i)) : i \in 1..Len(documents)}

\* C15: after build_index the keys of doc_freqs are the terms of the
\* corpus, doc_freqs[t] is the number of documents that hold t (a document
\* counts once however often t occurs in it), so it lies in 1..corpus_size,
\* and avgdl is sum(doc_len) / corpus_size, 0 for an empty corpus.
C15_DocFreqsCountDocs ==
    indexed =>
        /\ DOMAIN doc_freqs = CorpusTerms
        /\ \A t \in DOMAIN doc_freqs :
              /\ doc_freqs[t] = Cardinality(DocsWith(t))
              /\ 1 <= doc_freqs[t]
              /\ doc_freqs[t] <= corpus_size
        /\ avgdl = IF corpus_size = 0 THEN FZero
                   ELSE FDiv(FloatOfInt(Sum(doc_len)), FloatOfInt(corpus_size))

\* an index with a term that two documents hold, one of them twice
C15_Witness ==
    /\ op = "build_index"
    /\ \E t \in DOMAIN doc_freqs :
          /\ doc_freqs[t] = 2
          /\ \E i \in DocsWith(t) : Count(DocTokens(i), t) = 2

\* the recorded text as str.lower() gives it
Lowered == LowerStr(query)

\* character i of the lowered text is a letter or digit of [a-z0-9]
InWord(i) == IsAlnum(Lowered[i]) /\ ~(Lowered[i] >= 65 /\ Lowered[i] <= 90)

\* the places of the lowered text where a term starts: every ideograph of
\* U+4E00..U+9FFF, and the first character of every maximal run of [a-z0-9]
TermStarts ==
    {i \in 1..Len(Lowered) :
        IsCJK(Lowered[i]) \/ (InWord(i) /\ (i = 1 \/ ~InWord(i - 1)))}

\* the last place of the maximal run of [a-z0-9] that starts at i
WordEnd(i) ==
    CHOOSE j \in i..Len(Lowered) :
        /\ \A k \in i..j : InWord(k)
        /\ j = Len(Lowered) \/ ~InWord(j + 1)

\* the term that starts at place i
TermAt(i) ==
    IF IsCJK(Lowered[i]) THEN <<Lowered[i]>> ELSE SubSeq(Lowered, i, WordEnd(i))

\* the n-th place, from the left, where a term starts
NthStart(n) == CHOOSE i \in TermStarts : Cardinality({j \in TermStarts : j < i}) = n - 1

\* C16: tokenize returns, left to right, one term for every maximal run of
\* letters and digits of the lower-cased text and one term for every
\* ideograph, and nothing else; a term holds no capital letter; a text
\* that is empty or all whitespace gives no term.
C16_TokenizeRuns ==
    op = "tokenize" =>
        /\ Len(results) = Cardinality(TermStarts)
        /\ \A n \in 1..Len(results) : results[n] = TermAt(NthStart(n))
        /\ \A n \in 1..Len(results) :
              \A k \in 1..Len(results[n]) :
                  \/ IsCJK(results[n][k])
                  \/ results[n][k] >= 97 /\ results[n][k] <= 122
                  \/ results[n][k] >= 48 /\ results[n][k] <= 57
        /\ IsBlank(query) => results = <<>>

\* a text with a capital letter, an ideograph and a character that is
\* dropped gave two terms
C16_Witness ==
    /\ op = "tokenize"
    /\ Len(query) = 3
    /\ 65 \in Range(query)
    /\ \E i \in 1..Len(query) : IsCJK(query[i])
    /\ \E i \in 1..Len(query) : ~IsCJK(query[i]) /\ ~IsAlnum(query[i])
    /\ Len(results) = 2
    /\ <<97>> \in Range(results)

\* a new engine on which only build_index(documents) was called
FreshEngine == build_index(NewEngine, documents)

\* C17: whatever was built on the engine before, a search returns what it
\* returns on a new engine built once with the present corpus.
C17_RebuildEqualsFresh ==
    op = "search" => Got = search(FreshEngine, query, top_n)

\* a search found documents on an engine built twice, whose idf still has
\* a term of the first corpus that the query names and the second lacks
C17_Witness ==
    /\ op = "search"
    /\ builds = 2
    /\ results # <<>>
    /\ \E t \in Range(tokenize(query)) : t \in DOMAIN idf /\ t \notin DOMAIN doc_freqs

====
